---- MODULE Spec2Model ----
(***************************************************************************)
(* A model of the batch splitter of great_expectations                     *)
(* (execution_engine/split_and_sample/polars_data_splitter.py).            *)
(*                                                                         *)
(* A dataset (polars DataFrame) is a sequence of rows; a row is a record   *)
(* from column names to values.  Every splitting strategy is an operator   *)
(* that returns what the call produces: the outcome ("ok" or the name of   *)
(* the exception that escapes), the returned rows, the offending name the  *)
(* error message carries, and two counters of the work done before the     *)
(* call ended: the rows a row-level predicate was evaluated on and the     *)
(* boolean mask filters (df[mask]) that were executed.  One action per     *)
(* strategy applies it to the current dataset with inputs drawn from small *)
(* sets.                                                                   *)
(*                                                                         *)
(* Other parts of the repository have a specification of their own:       *)
(* analytics.submit and analytics.init (analytics/client.py) under         *)
(* SpecAnalytics and SpecAnalyticsInit, the validators of                  *)
(* SnowflakeDatasource (datasource/fluent/snowflake_datasource.py) under   *)
(* SpecSnowflake and its get_engine under SpecEngine.                      *)
(***************************************************************************)
EXTENDS Integers, Sequences, FiniteSets, TLC

\* ------------------------------------------------------------------ bounds
\* Longest dataset (rows).
MaxRows == 2
\* Integer column values and batch identifier values range over -MaxInt..MaxInt.
MaxInt == 3
\* divisor and mod range over -MaxDiv..MaxDiv (zero included).
MaxDiv == 3
\* Values of the columns "a" and "b" (and of their batch identifiers) range
\* over 0..MaxVal; 0 is Python-falsy.
MaxVal == 1
\* Values of the hashed column "key" range over 0..MaxKey.
MaxKey == 2
\* Hex characters in a digest of the stand-in hash functions.
DigestLen == 2
\* Datetime values range over the years 2021..2021+YearSpan.
YearSpan == 1
\* Most messages the analytics client holds.
MaxCaptured == 2
\* Most key=value pairs in the query part of a connection URL.
MaxParams == 2
\* Most engines a datasource creates.
MaxEngines == 3

VARIABLES
    df,               \* the dataset handed to the splitter
    columns,          \* df.columns: the column names of the dataset
    call,             \* the last call: strategy name and arguments
    outcome,          \* "none" | "ok" | the exception that escaped the call
    result,           \* the returned dataset (<<>> when the call raised)
    offender,         \* the name the raised error's message carries ("" if none)
    rows_evaluated,   \* rows a row-level predicate was evaluated on during the call
    filters_applied,  \* boolean-mask filters df[mask] executed during the call
    posthog,          \* the analytics client (module posthog): disabled, settings, captured
    config,           \* the analytics configuration (update_config)
    validation,       \* a datasource's construction: the values and the errors
    datasource        \* a constructed datasource: connection_string, engine, cache

vars == <<df, columns, call, outcome, result, offender, rows_evaluated,
          filters_applied, posthog, config, validation, datasource>>

\* ----------------------------------------------------------------- helpers
SeqsUpTo(S, n) == UNION {[1..k -> S] : k \in 0..n}

Abs(x) == IF x < 0 THEN -x ELSE x

\* frame[mask] with the kept rows in reverse order.
RECURSIVE FilterRowsReversed(_, _)
FilterRowsReversed(frame, mask) ==
    IF frame = <<>> THEN <<>>
    ELSE FilterRowsReversed(Tail(frame), Tail(mask))
             \o (IF Head(mask) THEN <<Head(frame)>> ELSE <<>>)

\* frame[mask]: the rows whose mask entry is TRUE, in their original order.
RECURSIVE FilterRows(_, _)
FilterRows(frame, mask) ==
    IF frame = <<>> THEN <<>>
    ELSE (IF Head(mask) THEN <<Head(frame)>> ELSE <<>>)
             \o FilterRows(Tail(frame), Tail(mask))

\* What a call hands back to its caller.
Returned(rows, nrows, nfilters) ==
    [outcome |-> "ok", result |-> rows, offender |-> "",
     rows_evaluated |-> nrows, filters_applied |-> nfilters]

Raised(exc, name, nrows, nfilters) ==
    [outcome |-> exc, result |-> <<>>, offender |-> name,
     rows_evaluated |-> nrows, filters_applied |-> nfilters]

\* ------------------------------------------------------ integer strategies
\* The lambda written with a truncating remainder (math.fmod, C's %): the
\* sign of the result follows the dividend.
PyModTruncated(x, m) ==
    IF x >= 0 THEN x % Abs(m) ELSE -((-x) % Abs(m))

\* Python's x % m for m # 0: the sign of the result follows the divisor.
PyMod(x, m) ==
    IF m > 0 THEN x % m ELSE -((-x) % (-m))

\* The lambda written with x // divisor: the quotient rounded towards minus
\* infinity instead of towards zero.
PyFloorDiv(x, d) ==
    IF d > 0 THEN x \div d ELSE (-x) \div (-d)

\* int(x / d) for d # 0: the true quotient truncated towards zero.  Within
\* the modelled range the float quotient is exact enough for int() to return
\* the truncated exact quotient.
PyIntOfTrueDiv(x, d) ==
    IF (x >= 0) = (d > 0) THEN Abs(x) \div Abs(d) ELSE -(Abs(x) \div Abs(d))

\* df[column_name].apply(lambda x: x % mod == matching_mod_value)
ModMask(frame, column_name, mod, matching_mod_value) ==
    [i \in 1..Len(frame) |-> PyMod(frame[i][column_name], mod) = matching_mod_value]

\* df[column_name].apply(lambda x: int(x / divisor) == matching_divisor)
DividedMask(frame, column_name, divisor, matching_divisor) ==
    [i \in 1..Len(frame) |->
        PyIntOfTrueDiv(frame[i][column_name], divisor) = matching_divisor]

\* split_on_mod_integer: x % mod == matching_mod_value on every row, then the
\* mask filter.  With mod = 0 the lambda raises ZeroDivisionError on the first
\* row it is applied to; on an empty column it is never applied.
SplitOnModInteger(frame, column_name, mod, batch_identifiers) ==
    LET matching_mod_value == batch_identifiers[column_name]
    IN  IF mod = 0 /\ Len(frame) > 0
        THEN Raised("ZeroDivisionError", "", 1, 0)
        ELSE Returned(
                 FilterRows(frame,
                     ModMask(frame, column_name, mod, matching_mod_value)),
                 Len(frame), 1)

\* split_on_divided_integer: int(x / divisor) == matching_divisor on every
\* row, then the mask filter.  With divisor = 0 the lambda raises
\* ZeroDivisionError on the first row; on an empty column it is never applied.
SplitOnDividedInteger(frame, column_name, divisor, batch_identifiers) ==
    LET matching_divisor == batch_identifiers[column_name]
    IN  IF divisor = 0 /\ Len(frame) > 0
        THEN Raised("ZeroDivisionError", "", 1, 0)
        ELSE Returned(
                 FilterRows(frame,
                     DividedMask(frame, column_name, divisor, matching_divisor)),
                 Len(frame), 1)

\* -------------------------------------------------- multi-column strategy
\* `if not value`: batch_identifiers.get(column_name) is None (the key is
\* absent) or a falsy value (0 for the integer identifiers modelled here).
Falsy(batch_identifiers, column_name) ==
    \/ column_name \notin DOMAIN batch_identifiers
    \/ batch_identifiers[column_name] = 0

\* subset_df[subset_df[column_name] == value]
FilterOnValue(subset_df, column_name, value) ==
    FilterRows(subset_df,
        [i \in 1..Len(subset_df) |-> subset_df[i][column_name] = value])

\* The loop with `subset_df = df[df[column_name] == value]`: every pass
\* filters the whole dataset again instead of the narrowed one.
RECURSIVE MultiColumnLoopRefiltersInput(_, _, _, _, _, _)
MultiColumnLoopRefiltersInput(frame, subset_df, column_names, batch_identifiers, nrows, nfilters) ==
    IF column_names = <<>> THEN Returned(subset_df, nrows, nfilters)
    ELSE LET column_name == Head(column_names)
         IN  IF Falsy(batch_identifiers, column_name)
             THEN Raised("ValueError", column_name, nrows, nfilters)
             ELSE MultiColumnLoopRefiltersInput(
                      frame,
                      FilterOnValue(frame, column_name, batch_identifiers[column_name]),
                      Tail(column_names), batch_identifiers,
                      nrows + Len(frame), nfilters + 1)

\* The for loop of split_on_multi_column_values: per column, in list order,
\* the identifier is looked up and checked, then the narrowed copy is filtered.
RECURSIVE MultiColumnLoop(_, _, _, _, _, _)
MultiColumnLoop(frame, subset_df, column_names, batch_identifiers, nrows, nfilters) ==
    IF column_names = <<>> THEN Returned(subset_df, nrows, nfilters)
    ELSE LET column_name == Head(column_names)
         IN  IF Falsy(batch_identifiers, column_name)
             THEN Raised("ValueError", column_name, nrows, nfilters)
             ELSE MultiColumnLoop(
                      frame,
                      FilterOnValue(subset_df, column_name, batch_identifiers[column_name]),
                      Tail(column_names), batch_identifiers,
                      nrows + Len(subset_df), nfilters + 1)

\* split_on_multi_column_values: subset_df = df.clone(), then the loop.
SplitOnMultiColumnValues(frame, column_names, batch_identifiers) ==
    MultiColumnLoop(frame, frame, column_names, batch_identifiers, 0, 0)

\* ------------------------------------------------------- hashed strategy
HexChars == <<"0", "1", "2", "3", "4", "5", "6", "7", "8", "9",
              "a", "b", "c", "d", "e", "f">>

RECURSIVE PyStrDigits(_)
PyStrDigits(n) ==
    IF n < 10 THEN <<HexChars[n + 1]>>
    ELSE PyStrDigits(n \div 10) \o <<HexChars[(n % 10) + 1]>>

\* str(x) of an integer: an optional minus sign and the decimal digits.
PyStr(x) == IF x < 0 THEN <<"-">> \o PyStrDigits(-x) ELSE PyStrDigits(x)

\* The byte of a character of str(x).encode().
ByteOf(c) ==
    IF c = "-" THEN 45 ELSE 47 + (CHOOSE i \in 1..10 : HexChars[i] = c)

\* The names getattr(hashlib, name) finds that construct a hash object with
\* a hexdigest() method.
HashAlgorithms == {"md5", "sha1"}

\* Every name getattr(hashlib, name) finds: the algorithms, and the module's
\* other attributes (hashlib.algorithms_available is a set of names).
HashlibAttributes == HashAlgorithms \cup {"algorithms_available"}

RECURSIVE Mix(_, _)
Mix(h, bytes) ==
    IF bytes = <<>> THEN h
    ELSE Mix((h * 31 + Head(bytes)) % (16 ^ DigestLen), Tail(bytes))

\* hash_method(bytes).hexdigest(): a stand-in for the named algorithm, a
\* deterministic digest of DigestLen lower-case hex characters.
Hexdigest(hash_function_name, chars) ==
    LET bytes == [i \in 1..Len(chars) |-> ByteOf(chars[i])]
        h == Mix(IF hash_function_name = "md5" THEN 5 ELSE 11, bytes)
    IN  [i \in 1..DigestLen |->
            HexChars[((h \div (16 ^ (DigestLen - i))) % 16) + 1]]

\* The last n characters of s, none when n = 0.
LastChars(s, n) ==
    IF n >= Len(s) THEN s ELSE SubSeq(s, Len(s) - n + 1, Len(s))

\* s[-1 * n:] for n >= 0.  -1 * 0 is 0, and s[0:] is the whole string.
PySliceFromMinus(s, n) ==
    IF n = 0 THEN s ELSE LastChars(s, n)

\* df[column_name].apply(lambda x:
\*     hash_method(str(x).encode()).hexdigest()[-1 * hash_digits:] == hash_value)
HashedMask(frame, column_name, hash_digits, hash_value, hash_function_name) ==
    [i \in 1..Len(frame) |->
        PySliceFromMinus(Hexdigest(hash_function_name, PyStr(frame[i][column_name])),
                         hash_digits) = hash_value]

\* split_on_hashed_column.  getattr fails for a name hashlib does not have
\* and the splitter raises ExecutionEngineError; any attribute it does have
\* is accepted, and one that is no hash constructor fails with TypeError in
\* the lambda on the first row (never, on an empty column).
SplitOnHashedColumn(frame, column_name, hash_digits, batch_identifiers, hash_function_name) ==
    IF hash_function_name \notin HashlibAttributes
    THEN Raised("ExecutionEngineError", hash_function_name, 0, 0)
    ELSE IF hash_function_name \notin HashAlgorithms /\ Len(frame) > 0
    THEN Raised("TypeError", "", 1, 0)
    ELSE Returned(
             FilterRows(frame,
                 HashedMask(frame, column_name, hash_digits,
                            batch_identifiers["hash_value"], hash_function_name)),
             Len(frame), 1)

\* ---------------------------------------------------- date-part strategy
\* The members of the DatePart enumeration that the modelled datetime values
\* carry, by their value (DatePart.YEAR.value is "year").
DatePartNames == {"year", "month", "day"}

\* str.lower() on the date-part strings that are supplied.
LowerCase(s) ==
    CASE s = "YEAR" -> "year"
      [] s = "Month" -> "month"
      [] OTHER -> s

\* _validate_date_parts: every entry is a DatePart or, case-insensitively,
\* the string of one.
ValidDateParts(date_parts) ==
    \A i \in 1..Len(date_parts) : LowerCase(date_parts[i]) \in DatePartNames

\* The first entry _validate_date_parts rejects.
FirstInvalidDatePart(date_parts) ==
    date_parts[CHOOSE i \in 1..Len(date_parts) :
                  /\ LowerCase(date_parts[i]) \notin DatePartNames
                  /\ \A j \in 1..(i - 1) : LowerCase(date_parts[j]) \in DatePartNames]

\* _convert_date_parts: strings become the canonical DatePart.
ConvertDateParts(date_parts) ==
    [i \in 1..Len(date_parts) |-> LowerCase(date_parts[i])]

\* _convert_datetime_batch_identifiers_to_date_parts_dict: per requested date
\* part, in the order requested, the target integer: the entry of the nested
\* mapping, or the part of the datetime.  A dict keeps one entry per key, at
\* the place of its first insertion.
RECURSIVE DatePartsDict(_, _, _)
DatePartsDict(column_batch_identifiers, date_parts, seen) ==
    IF date_parts = <<>> THEN <<>>
    ELSE LET date_part == Head(date_parts)
         IN  IF date_part \in seen
             THEN DatePartsDict(column_batch_identifiers, Tail(date_parts), seen)
             ELSE <<[date_part |-> date_part,
                     date_part_value |-> column_batch_identifiers.value[date_part]]>>
                  \o DatePartsDict(column_batch_identifiers, Tail(date_parts),
                                   seen \cup {date_part})

\* df[getattr(df[column_name].dt, date_part)() == date_part_value]
FilterOnDatePart(frame, column_name, date_part, date_part_value) ==
    FilterRows(frame,
        [i \in 1..Len(frame) |-> frame[i][column_name][date_part] = date_part_value])

\* The loop that returns after its first pass: only the first date part of
\* the dict is applied.
DatePartsLoopFirstOnly(frame, column_name, date_parts_dict, nrows, nfilters) ==
    IF date_parts_dict = <<>> THEN Returned(frame, nrows, nfilters)
    ELSE Returned(FilterOnDatePart(frame, column_name,
                                   Head(date_parts_dict).date_part,
                                   Head(date_parts_dict).date_part_value),
                  nrows + Len(frame), nfilters + 1)

\* The loop with the date part's value compared by `>=` instead of `==`.
RECURSIVE DatePartsLoopAtLeast(_, _, _, _, _)
DatePartsLoopAtLeast(frame, column_name, date_parts_dict, nrows, nfilters) ==
    IF date_parts_dict = <<>> THEN Returned(frame, nrows, nfilters)
    ELSE LET e == Head(date_parts_dict)
         IN  DatePartsLoopAtLeast(
                 FilterRows(frame,
                     [i \in 1..Len(frame) |->
                         frame[i][column_name][e.date_part] >= e.date_part_value]),
                 column_name, Tail(date_parts_dict),
                 nrows + Len(frame), nfilters + 1)

\* The for loop of split_on_date_parts: one equality filter per entry of
\* date_parts_dict, in the dict's order, each on the rows the last one kept.
RECURSIVE DatePartsLoop(_, _, _, _, _)
DatePartsLoop(frame, column_name, date_parts_dict, nrows, nfilters) ==
    IF date_parts_dict = <<>> THEN Returned(frame, nrows, nfilters)
    ELSE DatePartsLoop(
             FilterOnDatePart(frame, column_name,
                              Head(date_parts_dict).date_part,
                              Head(date_parts_dict).date_part_value),
             column_name, Tail(date_parts_dict),
             nrows + Len(frame), nfilters + 1)

\* split_on_date_parts with batch_identifiers[column_name] read before the
\* date parts are validated.
SplitOnDatePartsResolvesFirst(frame, column_name, batch_identifiers, date_parts) ==
    IF column_name \notin DOMAIN batch_identifiers
    THEN Raised("KeyError", column_name, 0, 0)
    ELSE IF ~ValidDateParts(date_parts)
    THEN Raised("ValidationError", FirstInvalidDatePart(date_parts), 0, 0)
    ELSE DatePartsLoop(frame, column_name,
             DatePartsDict(batch_identifiers[column_name],
                           ConvertDateParts(date_parts), {}),
             0, 0)

\* split_on_date_parts: validate, convert, read batch_identifiers[column_name]
\* (KeyError when the column has no identifier), resolve the targets, filter.
SplitOnDateParts(frame, column_name, batch_identifiers, date_parts) ==
    IF ~ValidDateParts(date_parts)
    THEN Raised("ValidationError", FirstInvalidDatePart(date_parts), 0, 0)
    ELSE IF column_name \notin DOMAIN batch_identifiers
    THEN Raised("KeyError", column_name, 0, 0)
    ELSE DatePartsLoop(frame, column_name,
             DatePartsDict(batch_identifiers[column_name],
                           ConvertDateParts(date_parts), {}),
             0, 0)

SplitOnYear(frame, column_name, batch_identifiers) ==
    SplitOnDateParts(frame, column_name, batch_identifiers, <<"year">>)

SplitOnYearAndMonth(frame, column_name, batch_identifiers) ==
    SplitOnDateParts(frame, column_name, batch_identifiers, <<"year", "month">>)

SplitOnYearAndMonthAndDay(frame, column_name, batch_identifiers) ==
    SplitOnDateParts(frame, column_name, batch_identifiers, <<"year", "month", "day">>)

\* ----------------------------------------------------- whole-table strategy
\* split_on_whole_table with the first row left out.
SplitOnWholeTableSkipsFirst(frame) ==
    Returned(IF frame = <<>> THEN <<>> ELSE Tail(frame), 0, 0)

\* split_on_whole_table: the dataset itself; no row is looked at.
SplitOnWholeTable(frame) == Returned(frame, 0, 0)

\* ---------------------------------------------------- column-value strategy
\* A batch identifier value of split_on_column_value carries its Python type:
\* [py_type |-> "int", value |-> 1] is 1, [py_type |-> "str", value |-> "x"]
\* is 'x'.  The columns compared are integer columns.
\*
\* split_on_column_value: read batch_identifiers[column_name] (KeyError when
\* absent), compare the column with it, filter once.  Comparing the integer
\* column with a value of its own type gives the mask of the equal rows.
\* What the comparison with a value of another type gives is decided by the
\* dataset library: a mask without a match, or an error of the comparison;
\* the set holds every outcome.
SplitOnColumnValue(frame, column_name, batch_identifiers) ==
    IF column_name \notin DOMAIN batch_identifiers
    THEN {Raised("KeyError", column_name, 0, 0)}
    ELSE LET other == batch_identifiers[column_name]
         IN  IF other.py_type = "int"
             THEN {Returned(FilterRows(frame,
                       [i \in DOMAIN frame |-> frame[i][column_name] = other.value]),
                       Len(frame), 1)}
             ELSE {Returned(<<>>, Len(frame), 1),
                   Raised("ComparisonError", column_name, 0, 0)}

\* ----------------------------------------------- converted-datetime strategy
\* The default of the parameter date_format_string: "%Y-%m-%d".
DefaultDateFormatString == <<"%", "Y", "-", "%", "m", "-", "%", "d">>

\* A number below 100 as two decimal digits (%m, %d).
TwoDigits(n) == <<HexChars[(n \div 10) + 1], HexChars[(n % 10) + 1]>>

\* x.strftime(fmt) for the directives %Y, %m, %d and %%; every other
\* character of fmt is copied.
RECURSIVE Strftime(_, _)
Strftime(x, fmt) ==
    IF fmt = <<>> THEN <<>>
    ELSE IF Head(fmt) = "%" /\ Len(fmt) >= 2
    THEN (CASE fmt[2] = "Y" -> PyStrDigits(x.year)
            [] fmt[2] = "m" -> TwoDigits(x.month)
            [] fmt[2] = "d" -> TwoDigits(x.day)
            [] OTHER -> <<fmt[2]>>)
         \o Strftime(x, SubSeq(fmt, 3, Len(fmt)))
    ELSE <<Head(fmt)>> \o Strftime(x, Tail(fmt))

\* split_on_converted_datetime comparing the default format whatever
\* date_format_string is.
SplitOnConvertedDatetimeDefaultFormat(frame, column_name, batch_identifiers, date_format_string) ==
    IF column_name \notin DOMAIN batch_identifiers
    THEN Raised("KeyError", column_name, Len(frame), 0)
    ELSE Returned(FilterRows(frame,
             [i \in DOMAIN frame |->
                 Strftime(frame[i][column_name], DefaultDateFormatString)
                     = batch_identifiers[column_name]]),
             Len(frame), 1)

\* split_on_converted_datetime: format every value of the column, read
\* batch_identifiers[column_name] (KeyError when absent), keep the rows whose
\* string equals it.
SplitOnConvertedDatetime(frame, column_name, batch_identifiers, date_format_string) ==
    IF column_name \notin DOMAIN batch_identifiers
    THEN Raised("KeyError", column_name, Len(frame), 0)
    ELSE Returned(FilterRows(frame,
             [i \in DOMAIN frame |->
                 Strftime(frame[i][column_name], date_format_string)
                     = batch_identifiers[column_name]]),
             Len(frame), 1)

\* ------------------------------------------------------ analytics: submit
\* None, as a value of an optional identifier.
None == "<None>"

\* bool(x) of an optional identifier: None is falsy, an identifier is truthy.
Truthy(x) == x # None

\* str(x) of an optional identifier.
StrOf(x) == IF x = None THEN "None" ELSE x

\* The steps of the try block of submit, in the order they are executed:
\* the reads of the event's attributes, event.properties(), posthog.capture.
SubmitSteps ==
    <<"data_context_id", "organization_id", "distinct_id", "action",
      "properties", "capture">>

\* Classes of exceptions that derive from Exception.
ExceptionClasses == {"AttributeError", "TypeError", "ConnectionError"}

\* KeyboardInterrupt derives from BaseException only.
RaisableClasses == ExceptionClasses \cup {"KeyboardInterrupt"}

\* groups: the data context, and the organization when the event has one.
Groups(event) ==
    IF Truthy(event.organization_id)
    THEN [data_context |-> event.data_context_id,
          organization |-> event.organization_id]
    ELSE [data_context |-> event.data_context_id]

\* posthog.capture(distinct_id, event, properties, groups=groups): queues the
\* message unless the client is disabled.
Capture(ph, distinct_id, action, properties, groups) ==
    IF ph.disabled THEN ph
    ELSE [ph EXCEPT !.captured =
             Append(@, [distinct_id |-> distinct_id, event |-> action,
                        properties |-> properties, groups |-> groups])]

\* The try block of submit; fault.at names the step that raises fault.exc
\* ("none": no step raises).
SubmitTry(event, fault, ph) ==
    IF fault.at # "none"
    THEN [raised |-> fault.exc, posthog |-> ph]
    ELSE [raised |-> "",
          posthog |-> Capture(ph, StrOf(event.distinct_id), StrOf(event.action),
                              event.properties, Groups(event))]

\* submit with a handler for AttributeError alone.
SubmitCatchesAttributeError(event, fault, ph) ==
    LET body == SubmitTry(event, fault, ph)
    IN  IF body.raised = "" \/ body.raised = "AttributeError"
        THEN [outcome |-> "returned", posthog |-> body.posthog]
        ELSE [outcome |-> body.raised, posthog |-> body.posthog]

\* submit: the try block under `except Exception: pass`; what the handler
\* does not catch escapes.
Submit(event, fault, ph) ==
    LET body == SubmitTry(event, fault, ph)
    IN  IF body.raised = "" \/ body.raised \in ExceptionClasses
        THEN [outcome |-> "returned", posthog |-> body.posthog]
        ELSE [outcome |-> body.raised, posthog |-> body.posthog]

\* -------------------------------------------------------- analytics: init
\* The module posthog as imported: enabled, no API key, no host, nothing
\* captured.
FreshPosthog ==
    [disabled |-> FALSE, debug |-> FALSE, project_api_key |-> None,
     host |-> None, captured |-> <<>>]

\* ENV_CONFIG: the settings init hands to posthog.
EnvConfig ==
    [posthog_debug |-> TRUE, posthog_project_api_key |-> "phc_key",
     posthog_host |-> "https://posthog.greatexpectations.io"]

\* The analytics configuration before any init.
DefaultConfig ==
    [cloud_mode |-> FALSE, user_id |-> None, data_context_id |-> None,
     organization_id |-> None, oss_id |-> None]

\* os.getenv(name): None when the variable is not set.
Getenv(environ, name) == IF name \in DOMAIN environ THEN environ[name] ELSE None

\* _in_gx_ci: GitHub Actions of the GX repository, Azure Pipelines of the GX
\* project, or a running pytest (PYTEST_CURRENT_TEST set and not empty).
InGxCi(environ) ==
    \/ Getenv(environ, "GITHUB_REPOSITORY") = "great-expectations/great_expectations"
    \/ Getenv(environ, "System.TeamProject") = "great_expectations"
    \/ (Getenv(environ, "PYTEST_CURRENT_TEST") # None
           /\ Getenv(environ, "PYTEST_CURRENT_TEST") # "")

\* Config(cloud_mode=cloud_mode, **conf): an identifier is passed when it is
\* truthy, and is None otherwise.
ConfigOf(args) ==
    [cloud_mode |-> args.cloud_mode,
     user_id |-> IF Truthy(args.user_id) THEN args.user_id ELSE None,
     data_context_id |->
         IF Truthy(args.data_context_id) THEN args.data_context_id ELSE None,
     organization_id |->
         IF Truthy(args.organization_id) THEN args.organization_id ELSE None,
     oss_id |-> IF Truthy(args.oss_id) THEN args.oss_id ELSE None]

\* init that does not look at the environment.
AnalyticsInitIgnoresCi(args, environ, ph) ==
    [config |-> ConfigOf(args),
     posthog |->
         IF args.enable
         THEN [ph EXCEPT !.disabled = FALSE,
                         !.debug = EnvConfig.posthog_debug,
                         !.project_api_key = EnvConfig.posthog_project_api_key,
                         !.host = EnvConfig.posthog_host]
         ELSE [ph EXCEPT !.disabled = TRUE]]

\* init: update the configuration, disable the client unless enable is set
\* outside of CI, and write the settings when the client is enabled.
AnalyticsInit(args, environ, ph) ==
    LET enable == args.enable /\ ~InGxCi(environ)
    IN  [config |-> ConfigOf(args),
         posthog |->
             IF enable
             THEN [ph EXCEPT !.disabled = FALSE,
                             !.debug = EnvConfig.posthog_debug,
                             !.project_api_key = EnvConfig.posthog_project_api_key,
                             !.host = EnvConfig.posthog_host]
             ELSE [ph EXCEPT !.disabled = TRUE]]

\* ------------------------------------------ snowflake datasource validation
\* REQUIRED_QUERY_PARAMS
RequiredQueryParams == {"warehouse", "role"}

\* The keyword names of the connection details, as the caller writes them.
DetailKeywords ==
    {"account", "user", "password", "database", "schema", "warehouse", "role",
     "numpy"}

\* connection_detail_fields: "schema" and the field names of ConnectionDetails.
ConnectionDetailFields ==
    {"schema"} \cup {"account", "user", "password", "database", "schema_",
                     "warehouse", "role", "numpy"}

\* ConnectionDetails.required_fields(): every field but numpy, schema_ under
\* its alias.
RequiredDetailFields ==
    {"account", "user", "password", "database", "schema", "warehouse", "role"}

\* A value of connection_string is a record: its Python type ("NoneType",
\* "str", "dict" as given; "SnowflakeDsn", "ConfigUri", "ConnectionDetails"
\* once parsed), for a string what it holds (form: "" the empty string,
\* "snowflake" a snowflake:// URL with user, password, account, database and
\* schema, "template" a URL with a ${...} config template, "text" another
\* string) and the key=value pairs of its query part, for a dict its entries.
NoneValue == [type |-> "NoneType", form |-> "", query |-> <<>>, details |-> <<>>]

StrValue(form, query) ==
    [type |-> "str", form |-> form, query |-> query, details |-> <<>>]

DictValue(details) ==
    [type |-> "dict", form |-> "", query |-> <<>>, details |-> details]

\* bool(v): None, the empty string and the empty dict are falsy.
PyBool(v) ==
    CASE v.type = "NoneType" -> FALSE
      [] v.type = "str" -> v.form # ""
      [] v.type = "dict" -> DOMAIN v.details # {}
      [] OTHER -> TRUE

\* values.get(key): None when the key is absent.
DictGet(values, key) == IF key \in DOMAIN values THEN values[key] ELSE NoneValue

\* _convert_root_connection_detail_fields without the test of
\* connection_string: the details replace it.
ConvertRootOverwrites(values) ==
    LET provided == DOMAIN values \cap ConnectionDetailFields
        connection_details == [k \in provided |-> values[k]]
        rest == DOMAIN values \ provided
    IN  [raised |-> "",
         values |-> IF provided = {} THEN values
                    ELSE [k \in rest \cup {"connection_string"} |->
                             IF k = "connection_string"
                             THEN DictValue(connection_details) ELSE values[k]]]

\* _convert_root_connection_detail_fields (pre root validator).  The loop
\* raises at the first detail field when connection_string is truthy, before
\* anything is popped; else it pops every detail field into
\* connection_details, which becomes connection_string when not empty.
ConvertRootConnectionDetailFields(values) ==
    LET provided == DOMAIN values \cap ConnectionDetailFields
        connection_details == [k \in provided |-> values[k]]
        rest == DOMAIN values \ provided
    IN  IF provided # {} /\ PyBool(DictGet(values, "connection_string"))
        THEN [raised |-> "both", values |-> values]
        ELSE [raised |-> "",
              values |-> IF provided = {} THEN values
                         ELSE [k \in rest \cup {"connection_string"} |->
                                  IF k = "connection_string"
                                  THEN DictValue(connection_details)
                                  ELSE values[k]]]

\* urllib.parse.parse_qs(query), its keys, blank values kept.
ParseQsKeepBlank(query) == {query[i].key : i \in DOMAIN query}

\* The keys of urllib.parse.parse_qs(query): a pair with a blank value is
\* dropped (keep_blank_values is False).
ParseQs(query) == {query[i].key : i \in {j \in DOMAIN query : query[j].value # ""}}

\* The parameter names of the model in alphabetical order.
Alphabetical == <<"application", "role", "warehouse">>

\* sorted(keys)
Sorted(keys) == SelectSeq(Alphabetical, LAMBDA k : k \in keys)

\* The error _UrlMissingQueryError(msg="missing " + ", ".join(keys)).
UrlMissingQueryError(keys) == [type |-> "_UrlMissingQueryError", msg |-> keys]

\* The ValueError of a validator, by its message.
ValueErrorOf(msg) == [type |-> "ValueError", msg |-> <<msg>>]

\* _check_for_required_query_params (validator of connection_string): the
\* errors it raises, none when it returns connection_string.
CheckForRequiredQueryParams(connection_string) ==
    IF connection_string.type \notin {"SnowflakeDsn", "ConfigUri"}
    THEN <<>>
    ELSE LET missing_keys ==
                 IF connection_string.query # <<>>
                 THEN RequiredQueryParams \ ParseQs(connection_string.query)
                 ELSE RequiredQueryParams
         IN  IF missing_keys # {}
             THEN <<UrlMissingQueryError(Sorted(missing_keys))>>
             ELSE <<>>

\* The parsing of the field connection_string (_check_config_template, then
\* the union ConnectionDetails | ConfigUri | SnowflakeDsn): the parsed value,
\* with type "invalid" when no member of the union accepts the input.
ParseConnectionString(v) ==
    CASE v.type = "str" /\ v.form = "template" -> [v EXCEPT !.type = "ConfigUri"]
      [] v.type = "str" /\ v.form = "snowflake" -> [v EXCEPT !.type = "SnowflakeDsn"]
      [] v.type = "dict" /\ RequiredDetailFields \subseteq DOMAIN v.details ->
             [v EXCEPT !.type = "ConnectionDetails"]
      [] OTHER -> [v EXCEPT !.type = "invalid"]

\* _check_xor_input_args (root validator): the errors it raises.  A field
\* that failed its validation is absent from values.
CheckXorInputArgs(values) ==
    LET connection_string == DictGet(values, "connection_string")
        is_connection_string ==
            connection_string.type \in {"str", "ConfigUri", "SnowflakeDsn"}
        has_min_connection_detail_values ==
            /\ connection_string.type = "ConnectionDetails"
            /\ \A k \in {"account", "user", "password"} :
                  connection_string.details[k] # ""
    IN  IF PyBool(connection_string)
           /\ (is_connection_string \/ has_min_connection_detail_values)
        THEN <<>>
        ELSE <<ValueErrorOf("neither")>>

\* No construction has run: no values, no errors.
NoValidation == [converted |-> <<>>, values |-> <<>>, errors |-> <<>>]

\* SnowflakeDatasource(**values): the pre root validator (its error ends the
\* validation), the field connection_string with its validator, the root
\* validator.  converted is what the pre root validator returned.
Validate(values) ==
    LET pre == ConvertRootConnectionDetailFields(values)
    IN  IF pre.raised # ""
        THEN [converted |-> pre.values, values |-> pre.values,
              errors |-> <<ValueErrorOf(pre.raised)>>]
        ELSE LET parsed == ParseConnectionString(DictGet(pre.values, "connection_string"))
                 field_errors ==
                     IF parsed.type = "invalid"
                     THEN <<[type |-> "FieldError", msg |-> <<"connection_string">>]>>
                     ELSE CheckForRequiredQueryParams(parsed)
                 validated ==
                     IF field_errors = <<>>
                     THEN [pre.values EXCEPT !["connection_string"] = parsed]
                     ELSE [k \in DOMAIN pre.values \ {"connection_string"} |->
                              pre.values[k]]
             IN  [converted |-> pre.values, values |-> validated,
                  errors |-> field_errors \o CheckXorInputArgs(validated)]

\* --------------------------------------------- snowflake datasource: engine
\* isinstance(v, str): SnowflakeDsn and ConfigUri are strings.
IsStr(v) == v.type \in {"str", "SnowflakeDsn", "ConfigUri"}

\* a != b for two values of connection_string: strings differ when their
\* text differs, ConnectionDetails when a field differs, and a
\* ConnectionDetails never equals a string.
PyNotEqual(a, b) ==
    IF IsStr(a) /\ IsStr(b) THEN <<a.form, a.query>> # <<b.form, b.query>>
    ELSE IF a.type = "ConnectionDetails" /\ b.type = "ConnectionDetails"
    THEN a.details # b.details
    ELSE TRUE

\* A datasource after construction with connection_string: no engine (0),
\* nothing cached (the empty string), no engine created.  created counts the
\* calls of sa.create_engine that returned; the engines are numbered by it.
\* last_connection_string is the connection_string of the last get_engine
\* call that returned, engine_connection_string the one the engine was
\* created from (None before).
NewDatasource(connection_string) ==
    [connection_string |-> connection_string,
     cached_connection_string |-> StrValue("", <<>>),
     engine |-> 0,
     execution_engine |-> 0,
     created |-> 0,
     last_connection_string |-> NoneValue,
     engine_connection_string |-> NoneValue]

\* No datasource exists.
NoDatasource == NewDatasource(NoneValue)

\* get_engine.  A new engine is created when connection_string differs from
\* the cached one or there is no engine; an exception in the try block
\* (creation_fails) becomes SQLDatasourceError and leaves the datasource as
\* it was; connection_string is cached only when it is a string.
GetEngine(ds, creation_fails) ==
    IF PyNotEqual(ds.connection_string, ds.cached_connection_string) \/ ds.engine = 0
    THEN IF creation_fails
         THEN [outcome |-> "SQLDatasourceError", returned |-> 0, datasource |-> ds]
         ELSE [outcome |-> "ok", returned |-> ds.created + 1,
               datasource |->
                   [ds EXCEPT !.engine = ds.created + 1,
                              !.created = ds.created + 1,
                              !.cached_connection_string =
                                  IF IsStr(ds.connection_string)
                                  THEN ds.connection_string ELSE @,
                              !.last_connection_string = ds.connection_string,
                              !.engine_connection_string = ds.connection_string]]
    ELSE [outcome |-> "ok", returned |-> ds.engine,
          datasource |-> [ds EXCEPT !.last_connection_string = ds.connection_string]]

\* get_execution_engine: an execution engine around self.get_engine(); the
\* error of get_engine escapes.
GetExecutionEngine(ds, creation_fails) ==
    LET r == GetEngine(ds, creation_fails)
    IN  IF r.outcome # "ok" THEN r
        ELSE [r EXCEPT !.datasource.execution_engine = r.returned]

\* ------------------------------------------------------------------ inputs
IntVals == -MaxInt..MaxInt
Divisors == -MaxDiv..MaxDiv
IntFrames == SeqsUpTo([num : IntVals], MaxRows)

Vals == 0..MaxVal
MultiFrames == SeqsUpTo([a : Vals, b : Vals], MaxRows)
\* column_names: one or two of the columns, in either order, repeats included.
ColumnNameLists == UNION {[1..k -> {"a", "b"}] : k \in 1..2}
\* batch_identifiers: each column absent or mapped to a value (0 is falsy).
MultiIdentifiers == UNION {[cols -> Vals] : cols \in SUBSET {"a", "b"}}

Years == 2021..(2021 + YearSpan)
Months == {5, 6}
\* The rows are dated the first of a month; a target may be another day.
Datetimes == [year : Years, month : Months, day : {1}]
TargetDatetimes == [year : Years, month : Months, day : {1, 2}]
DateFrames == SeqsUpTo([date : Datetimes], MaxRows)

\* The sequences that list every member of the set parts once.
Orderings(parts) ==
    {q \in [1..Cardinality(parts) -> parts] : \A p \in parts : \E i \in DOMAIN q : q[i] = p}

\* date_parts: every ordering of every non-empty set of date parts, two
\* lists with strings in another case, and three with an unsupported part.
DatePartLists ==
    UNION {Orderings(parts) : parts \in (SUBSET DatePartNames) \ {{}}}
    \cup {<<"YEAR", "month">>, <<"Month">>}
    \cup {<<"eon">>, <<"year", "eon">>, <<"eon", "month">>}

\* The date parts of date_parts that are supported, in canonical form.
Requested(date_parts) ==
    {LowerCase(date_parts[i]) : i \in 1..Len(date_parts)} \cap DatePartNames

\* batch_identifiers[column_name] for the target datetime t: the datetime
\* itself, or the nested mapping {date_part: value} of the requested parts.
ColumnBatchIdentifiers(t, date_parts) ==
    {[kind |-> "datetime", value |-> t],
     [kind |-> "mapping", value |-> [p \in Requested(date_parts) |-> t[p]]]}

Keys == 0..MaxKey
KeyFrames == SeqsUpTo([key : Keys], MaxRows)
\* md5 and sha1 are algorithms; algorithms_available is an attribute of
\* hashlib that is no algorithm; md6 is no attribute of hashlib.
HashFunctionNames == {"md5", "sha1", "algorithms_available", "md6"}
HashDigits == 0..(DigestLen + 1)
\* hash_value: the empty string and every suffix of a digest of a key.
HashValues ==
    {LastChars(Hexdigest(name, PyStr(k)), n) :
        name \in HashAlgorithms, k \in Keys, n \in 0..DigestLen}

\* Identifier values of split_on_column_value: the integers, and a string.
ColumnValueIdentifiers ==
    [py_type : {"int"}, value : IntVals] \cup [py_type : {"str"}, value : {"x"}]

\* date_format_string: the default, two shorter formats and one with the
\* parts in another order.
DateFormatStrings ==
    {DefaultDateFormatString,
     <<"%", "Y", "-", "%", "m">>,
     <<"%", "Y">>,
     <<"%", "d", "/", "%", "m">>}

\* Identifier strings of split_on_converted_datetime: every formatted target,
\* and a string no format produces.
MatchingStrings ==
    {Strftime(t, fmt) : t \in TargetDatetimes, fmt \in DateFormatStrings}
        \cup {<<"x">>}

\* Events: every attribute present or None.
Events ==
    [data_context_id : {None, "dc1"}, organization_id : {None, "org1"},
     distinct_id : {None, "user1"}, action : {"datasource.created"},
     properties : {"props"}]

\* No fault, or one step of the try block raising one class.
Faults ==
    {[at |-> "none", exc |-> ""]}
        \cup [at : {SubmitSteps[i] : i \in DOMAIN SubmitSteps}, exc : RaisableClasses]

\* The query parts of a URL: up to MaxParams key=value pairs, the value
\* blank or not.
QueryPairs == [key : {"warehouse", "role", "application"}, value : {"", "v"}]
Queries == SeqsUpTo(QueryPairs, MaxParams)

\* The value of every connection detail keyword.
DetailValues ==
    [account |-> "acct", user |-> "me", password |-> "pw", database |-> "db",
     schema |-> "public", warehouse |-> "wh", role |-> "analyst", numpy |-> TRUE]

\* The connection details given for the keywords keys.
DetailsOf(keys) == [k \in keys |-> DetailValues[k]]

\* Root-level connection details: every choice of keywords, and all of them
\* with a blank account.
RootDetails ==
    {DetailsOf(keys) : keys \in SUBSET DetailKeywords}
        \cup {[DetailsOf(DetailKeywords) EXCEPT !["account"] = ""]}

\* connection_string as given: None, strings (empty, a snowflake URL, a URL
\* with a config template, another text) and dicts of connection details
\* (complete, without role, with a blank account).
ConnectionStrings ==
    {NoneValue, StrValue("", <<>>), StrValue("text", <<>>)}
        \cup {StrValue(form, query) : form \in {"snowflake", "template"},
                                      query \in Queries}
        \cup {DictValue(DetailsOf(DetailKeywords)),
              DictValue(DetailsOf(DetailKeywords \ {"role"})),
              DictValue([DetailsOf(DetailKeywords) EXCEPT !["account"] = ""])}

\* The keyword arguments of a construction: name, the root-level details
\* and, when given, connection_string.
RootValues(given, connection_string, details) ==
    [k \in {"name"} \cup DOMAIN details
              \cup (IF given THEN {"connection_string"} ELSE {}) |->
        IF k = "name" THEN "my_snowflake"
        ELSE IF k = "connection_string" THEN connection_string
        ELSE details[k]]

\* The query with both required parameters.
FullQuery == <<[key |-> "role", value |-> "v"], [key |-> "warehouse", value |-> "v"]>>

\* connection_string of a constructed datasource: two URLs (a snowflake URL
\* and one with a config template) and two ConnectionDetails.
EngineConnectionStrings ==
    {ParseConnectionString(v) :
        v \in {StrValue("snowflake", FullQuery), StrValue("template", FullQuery),
               DictValue(DetailsOf(DetailKeywords)),
               DictValue(DetailsOf(DetailKeywords \ {"numpy"}))}}

\* The arguments of init: enable, cloud_mode, and every identifier given or
\* None.
InitArgs ==
    [enable : BOOLEAN, cloud_mode : BOOLEAN, user_id : {None, "user1"},
     data_context_id : {None, "dc1"}, organization_id : {None, "org1"},
     oss_id : {None, "oss1"}]

\* The values of an environment variable: those _in_gx_ci looks for, another
\* one, and the empty string for PYTEST_CURRENT_TEST.
EnvValues(name) ==
    CASE name = "GITHUB_REPOSITORY" ->
             {"great-expectations/great_expectations", "someone/fork"}
      [] name = "System.TeamProject" -> {"great_expectations", "other_project"}
      [] OTHER -> {"tests/test_x.py::test_y (call)", ""}

\* os.environ: each of the three variables unset or set to one of its values.
Environs ==
    UNION {{e \in [names -> UNION {EnvValues(n) : n \in names}] :
               \A n \in names : e[n] \in EnvValues(n)} :
           names \in SUBSET {"GITHUB_REPOSITORY", "System.TeamProject",
                             "PYTEST_CURRENT_TEST"}}

\* --------------------------------------------------------------- the system
Init ==
    /\ \/ df \in IntFrames /\ columns = {"num"}
       \/ df \in MultiFrames /\ columns = {"a", "b"}
       \/ df \in KeyFrames /\ columns = {"key"}
       \/ df \in DateFrames /\ columns = {"date"}
    /\ call = [op |-> "none"]
    /\ outcome = "none"
    /\ result = <<>>
    /\ offender = ""
    /\ rows_evaluated = 0
    /\ filters_applied = 0
    /\ posthog = FreshPosthog
    /\ config = DefaultConfig
    /\ validation = NoValidation
    /\ datasource = NoDatasource

\* The caller receives r; the dataset it passed in is not touched.
Finish(r) ==
    /\ outcome' = r.outcome
    /\ result' = r.result
    /\ offender' = r.offender
    /\ rows_evaluated' = r.rows_evaluated
    /\ filters_applied' = r.filters_applied
    /\ UNCHANGED <<df, columns, posthog, validation, datasource, config>>

CallSplitOnModInteger ==
    /\ outcome = "none"
    /\ "num" \in columns
    /\ \E mod \in Divisors, v \in IntVals :
          /\ call' = [op |-> "split_on_mod_integer", column_name |-> "num",
                      mod |-> mod, batch_identifiers |-> [num |-> v]]
          /\ Finish(SplitOnModInteger(df, "num", mod, [num |-> v]))

CallSplitOnDividedInteger ==
    /\ outcome = "none"
    /\ "num" \in columns
    /\ \E divisor \in Divisors, v \in IntVals :
          /\ call' = [op |-> "split_on_divided_integer", column_name |-> "num",
                      divisor |-> divisor, batch_identifiers |-> [num |-> v]]
          /\ Finish(SplitOnDividedInteger(df, "num", divisor, [num |-> v]))

CallSplitOnMultiColumnValues ==
    /\ outcome = "none"
    /\ {"a", "b"} \subseteq columns
    /\ \E column_names \in ColumnNameLists, ids \in MultiIdentifiers :
          /\ call' = [op |-> "split_on_multi_column_values",
                      column_names |-> column_names, batch_identifiers |-> ids]
          /\ Finish(SplitOnMultiColumnValues(df, column_names, ids))

CallSplitOnHashedColumn ==
    /\ outcome = "none"
    /\ "key" \in columns
    /\ \E name \in HashFunctionNames, hash_digits \in HashDigits, hv \in HashValues :
          /\ call' = [op |-> "split_on_hashed_column", column_name |-> "key",
                      hash_digits |-> hash_digits, hash_function_name |-> name,
                      batch_identifiers |-> [hash_value |-> hv]]
          /\ Finish(SplitOnHashedColumn(df, "key", hash_digits, [hash_value |-> hv], name))

CallSplitOnDateParts ==
    /\ outcome = "none"
    /\ "date" \in columns
    /\ \E date_parts \in DatePartLists :
          \/ \E t \in TargetDatetimes :
               \E ids \in ColumnBatchIdentifiers(t, date_parts) :
                /\ call' = [op |-> "split_on_date_parts", column_name |-> "date",
                            date_parts |-> date_parts,
                            batch_identifiers |-> [date |-> ids]]
                /\ Finish(SplitOnDateParts(df, "date", [date |-> ids], date_parts))
          \* batch_identifiers = {}: no identifier for the column
          \/ /\ call' = [op |-> "split_on_date_parts", column_name |-> "date",
                          date_parts |-> date_parts, batch_identifiers |-> <<>>]
             /\ Finish(SplitOnDateParts(df, "date", <<>>, date_parts))

CallSplitOnYear ==
    /\ outcome = "none"
    /\ "date" \in columns
    /\ \E t \in TargetDatetimes :
         \E ids \in ColumnBatchIdentifiers(t, <<"year">>) :
          /\ call' = [op |-> "split_on_year", column_name |-> "date",
                      date_parts |-> <<"year">>, batch_identifiers |-> [date |-> ids]]
          /\ Finish(SplitOnYear(df, "date", [date |-> ids]))

CallSplitOnYearAndMonth ==
    /\ outcome = "none"
    /\ "date" \in columns
    /\ \E t \in TargetDatetimes :
         \E ids \in ColumnBatchIdentifiers(t, <<"year", "month">>) :
          /\ call' = [op |-> "split_on_year_and_month", column_name |-> "date",
                      date_parts |-> <<"year", "month">>,
                      batch_identifiers |-> [date |-> ids]]
          /\ Finish(SplitOnYearAndMonth(df, "date", [date |-> ids]))

CallSplitOnYearAndMonthAndDay ==
    /\ outcome = "none"
    /\ "date" \in columns
    /\ \E t \in TargetDatetimes :
         \E ids \in ColumnBatchIdentifiers(t, <<"year", "month", "day">>) :
          /\ call' = [op |-> "split_on_year_and_month_and_day", column_name |-> "date",
                      date_parts |-> <<"year", "month", "day">>,
                      batch_identifiers |-> [date |-> ids]]
          /\ Finish(SplitOnYearAndMonthAndDay(df, "date", [date |-> ids]))

CallSplitOnWholeTable ==
    /\ outcome = "none"
    /\ call' = [op |-> "split_on_whole_table"]
    /\ Finish(SplitOnWholeTable(df))

CallSplitOnColumnValue ==
    /\ outcome = "none"
    /\ \E column_name \in columns \ {"date"} :
          \/ \E other \in ColumnValueIdentifiers :
               LET batch_identifiers == [c \in {column_name} |-> other]
               IN  /\ call' = [op |-> "split_on_column_value",
                               column_name |-> column_name,
                               batch_identifiers |-> batch_identifiers]
                   /\ \E r \in SplitOnColumnValue(df, column_name, batch_identifiers) :
                         Finish(r)
          \* batch_identifiers = {}: no identifier for the column
          \/ /\ call' = [op |-> "split_on_column_value",
                          column_name |-> column_name, batch_identifiers |-> <<>>]
             /\ \E r \in SplitOnColumnValue(df, column_name, <<>>) : Finish(r)

CallSplitOnConvertedDatetime ==
    /\ outcome = "none"
    /\ "date" \in columns
    /\ \E date_format_string \in DateFormatStrings :
          \/ \E matching_string \in MatchingStrings :
                /\ call' = [op |-> "split_on_converted_datetime",
                            column_name |-> "date",
                            date_format_string |-> date_format_string,
                            batch_identifiers |-> [date |-> matching_string]]
                /\ Finish(SplitOnConvertedDatetime(df, "date",
                              [date |-> matching_string], date_format_string))
          \* batch_identifiers = {}: no identifier for the column
          \/ /\ call' = [op |-> "split_on_converted_datetime",
                          column_name |-> "date",
                          date_format_string |-> date_format_string,
                          batch_identifiers |-> <<>>]
             /\ Finish(SplitOnConvertedDatetime(df, "date", <<>>, date_format_string))

\* The caller is done with the call (it took the result or caught the
\* exception); the splitter keeps nothing of it and the next call starts
\* afresh on the same dataset.
Release ==
    /\ outcome # "none"
    /\ call' = [op |-> "none"]
    /\ outcome' = "none"
    /\ result' = <<>>
    /\ offender' = ""
    /\ rows_evaluated' = 0
    /\ filters_applied' = 0
    /\ UNCHANGED <<df, columns, posthog, validation, datasource, config>>

\* The caller splits the returned batch further: the result of a successful
\* call is the dataset of the next one.
SplitResult ==
    /\ outcome = "ok"
    /\ df' = result
    /\ call' = [op |-> "none"]
    /\ outcome' = "none"
    /\ result' = <<>>
    /\ offender' = ""
    /\ rows_evaluated' = 0
    /\ filters_applied' = 0
    /\ UNCHANGED <<columns, posthog, validation, datasource, config>>

Next ==
    \/ CallSplitOnModInteger
    \/ CallSplitOnDividedInteger
    \/ CallSplitOnMultiColumnValues
    \/ CallSplitOnHashedColumn
    \/ CallSplitOnDateParts
    \/ CallSplitOnYear
    \/ CallSplitOnYearAndMonth
    \/ CallSplitOnYearAndMonthAndDay
    \/ CallSplitOnWholeTable
    \/ CallSplitOnColumnValue
    \/ CallSplitOnConvertedDatetime
    \/ Release
    \/ SplitResult

Spec == Init /\ [][Next]_vars

\* The splitter is not in use: no dataset, no result.
SplitterIdle ==
    /\ df = <<>>
    /\ columns = {}
    /\ result = <<>>
    /\ offender = ""
    /\ rows_evaluated = 0
    /\ filters_applied = 0

\* The analytics client as imported or after an init outside of CI (enabled
\* with its settings, or disabled); nothing captured yet.
InitAnalytics ==
    /\ SplitterIdle
    /\ call = [op |-> "none"]
    /\ outcome = "none"
    /\ posthog \in {AnalyticsInit(args, <<>>, FreshPosthog).posthog :
                       args \in InitArgs} \cup {FreshPosthog}
    /\ config = DefaultConfig
    /\ validation = NoValidation
    /\ datasource = NoDatasource

CallSubmit ==
    /\ outcome = "none"
    /\ Len(posthog.captured) < MaxCaptured
    /\ \E event \in Events, fault \in Faults :
          LET r == Submit(event, fault, posthog)
          IN  /\ call' = [op |-> "submit", event |-> event, fault |-> fault]
              /\ outcome' = r.outcome
              /\ posthog' = r.posthog
    /\ UNCHANGED <<df, columns, result, offender, rows_evaluated,
                   filters_applied, validation, datasource, config>>

NextAnalytics ==
    \/ CallSubmit
    \/ Release

SpecAnalytics == InitAnalytics /\ [][NextAnalytics]_vars

\* The module just imported, the configuration at its defaults.
InitAnalyticsInit ==
    /\ SplitterIdle
    /\ call = [op |-> "none"]
    /\ outcome = "none"
    /\ posthog = FreshPosthog
    /\ config = DefaultConfig
    /\ validation = NoValidation
    /\ datasource = NoDatasource

CallInit ==
    /\ outcome = "none"
    /\ \E args \in InitArgs, environ \in Environs :
          LET r == AnalyticsInit(args, environ, posthog)
          IN  /\ call' = [op |-> "init", enable |-> args.enable,
                          args |-> args, environ |-> environ]
              /\ outcome' = "returned"
              /\ posthog' = r.posthog
              /\ config' = r.config
    /\ UNCHANGED <<df, columns, result, offender, rows_evaluated,
                   filters_applied, validation, datasource>>

NextAnalyticsInit ==
    \/ CallInit
    \/ Release

SpecAnalyticsInit == InitAnalyticsInit /\ [][NextAnalyticsInit]_vars

\* No datasource is being constructed.
InitSnowflake ==
    /\ SplitterIdle
    /\ call = [op |-> "none"]
    /\ outcome = "none"
    /\ posthog = FreshPosthog
    /\ config = DefaultConfig
    /\ validation = NoValidation
    /\ datasource = NoDatasource

\* SnowflakeDatasource(**values): the validators run; the construction ends
\* ok or with pydantic's ValidationError holding their errors.
Construct(values) ==
    LET v == Validate(values)
    IN  /\ call' = [op |-> "SnowflakeDatasource", values |-> values]
        /\ validation' = v
        /\ outcome' = IF v.errors = <<>> THEN "ok" ELSE "ValidationError"
        /\ UNCHANGED <<df, columns, result, offender, rows_evaluated,
                       filters_applied, posthog, datasource, config>>

CallSnowflakeDatasource ==
    /\ outcome = "none"
    /\ \E details \in RootDetails :
          \/ \E connection_string \in ConnectionStrings :
                Construct(RootValues(TRUE, connection_string, details))
          \* connection_string is not among the keyword arguments
          \/ Construct(RootValues(FALSE, NoneValue, details))

\* The caller is done with the construction; the next one starts afresh.
ReleaseValidation ==
    /\ outcome # "none"
    /\ call' = [op |-> "none"]
    /\ outcome' = "none"
    /\ validation' = NoValidation
    /\ UNCHANGED <<df, columns, result, offender, rows_evaluated,
                   filters_applied, posthog, datasource, config>>

NextSnowflake ==
    \/ CallSnowflakeDatasource
    \/ ReleaseValidation

SpecSnowflake == InitSnowflake /\ [][NextSnowflake]_vars

\* A datasource has been constructed; no engine yet.
InitEngine ==
    /\ SplitterIdle
    /\ call = [op |-> "none"]
    /\ outcome = "none"
    /\ posthog = FreshPosthog
    /\ config = DefaultConfig
    /\ validation = NoValidation
    /\ datasource \in {NewDatasource(c) : c \in EngineConnectionStrings}

\* The caller receives r of get_engine or get_execution_engine.
FinishEngine(op, creation_fails, r) ==
    /\ call' = [op |-> op, creation_fails |-> creation_fails, returned |-> r.returned]
    /\ outcome' = r.outcome
    /\ datasource' = r.datasource
    /\ UNCHANGED <<df, columns, result, offender, rows_evaluated,
                   filters_applied, posthog, validation, config>>

CallGetEngine ==
    /\ outcome = "none"
    /\ datasource.created < MaxEngines
    /\ \E creation_fails \in BOOLEAN :
          FinishEngine("get_engine", creation_fails,
                       GetEngine(datasource, creation_fails))

CallGetExecutionEngine ==
    /\ outcome = "none"
    /\ datasource.created < MaxEngines
    /\ \E creation_fails \in BOOLEAN :
          FinishEngine("get_execution_engine", creation_fails,
                       GetExecutionEngine(datasource, creation_fails))

\* datasource.connection_string = c: the caller gives the datasource another
\* connection_string.
SetConnectionString ==
    /\ outcome = "none"
    /\ \E c \in EngineConnectionStrings \ {datasource.connection_string} :
          datasource' = [datasource EXCEPT !.connection_string = c]
    /\ UNCHANGED <<df, columns, call, outcome, result, offender, rows_evaluated,
                   filters_applied, posthog, validation, config>>

NextEngine ==
    \/ CallGetEngine
    \/ CallGetExecutionEngine
    \/ SetConnectionString
    \/ Release

SpecEngine == InitEngine /\ [][NextEngine]_vars


\* ===================================================================
\* Properties
\* ===================================================================
Range(seq) == {seq[i] : i \in DOMAIN seq}

\* Number of positions of seq holding r.
CountIn(seq, r) == Cardinality({i \in DOMAIN seq : seq[i] = r})

\* The sequences that hold the entries of seq, each as often, in any order.
Rearrangements(seq) ==
    {q \in [DOMAIN seq -> Range(seq)] :
        \A x \in Range(seq) : CountIn(q, x) = CountIn(seq, x)}

\* slices[0] \o slices[1] \o ... \o slices[k]
RECURSIVE ConcatSlices(_, _)
ConcatSlices(slices, k) ==
    IF k < 0 THEN <<>> ELSE ConcatSlices(slices, k - 1) \o slices[k]

\* The quotient of x by d # 0 rounded towards zero: x = q * d + r with
\* |r| < |d| and r zero or of the sign of x.
TruncatedQuotient(x, d) ==
    CHOOSE q \in -Abs(x)..Abs(x) :
        \E r \in -(Abs(d) - 1)..(Abs(d) - 1) :
            x = q * d + r /\ (r = 0 \/ (r > 0) = (x > 0))

\* The quotient of x by d # 0 rounded towards minus infinity (x // d):
\* x = q * d + r with |r| < |d| and r zero or of the sign of d.
FloorQuotient(x, d) ==
    CHOOSE q \in (-Abs(x) - 1)..Abs(x) :
        \E r \in -(Abs(d) - 1)..(Abs(d) - 1) :
            x = q * d + r /\ (r = 0 \/ (r > 0) = (d > 0))

IsModCall == call.op = "split_on_mod_integer"
IsDividedCall == call.op = "split_on_divided_integer"

\* The slice of df that split_on_mod_integer returns for identifier value v.
ModSlices ==
    [v \in 0..(call.mod - 1) |->
        SplitOnModInteger(df, call.column_name, call.mod, [num |-> v])]

\* C1: for mod > 0 the slices for the identifier values 0..mod-1 are pairwise
\* disjoint and together hold every row of the dataset exactly once; the
\* returned slice is the one of the call's identifier, and an identifier
\* outside 0..mod-1 selects nothing.
C1_ModPartition ==
    (IsModCall /\ call.mod > 0) =>
        LET all == ConcatSlices([v \in 0..(call.mod - 1) |-> ModSlices[v].result],
                                call.mod - 1)
            id == call.batch_identifiers[call.column_name]
        IN  /\ outcome = "ok"
            /\ \A v \in 0..(call.mod - 1) : ModSlices[v].outcome = "ok"
            /\ Len(all) = Len(df)
            /\ \A r \in Range(df) \cup Range(all) : CountIn(all, r) = CountIn(df, r)
            /\ \A v, w \in 0..(call.mod - 1) :
                   v # w => Range(ModSlices[v].result) \cap Range(ModSlices[w].result) = {}
            /\ result = IF id \in 0..(call.mod - 1) THEN ModSlices[id].result ELSE <<>>

\* C1 witness: a mod-2 (or larger) split of a dataset with a negative value
\* returned some of the rows and left some out.
C1_Witness ==
    /\ IsModCall /\ call.mod >= 2 /\ outcome = "ok"
    /\ \E i \in DOMAIN df : df[i].num < 0
    /\ result # <<>> /\ Len(result) < Len(df)

\* C2 (as claimed): split_on_mod_integer with mod = 0 raises a domain error
\* for every dataset, the empty one included, without applying the modulo
\* to any row.
C2_ZeroModRaisesDomainError ==
    (IsModCall /\ call.mod = 0) =>
        (outcome = "DomainError" /\ rows_evaluated = 0)

\* C3 (as claimed): split_on_divided_integer with divisor = 0 fails with a
\* domain error for every dataset, the empty one included; no result is
\* returned and no runtime division fault escapes.
C3_ZeroDivisorRaisesDomainError ==
    (IsDividedCall /\ call.divisor = 0) =>
        (outcome = "DomainError" /\ result = <<>>)

\* C4 (amended): for a non-zero divisor, split_on_divided_integer keeps a row
\* exactly when the quotient of its value by the divisor, rounded towards
\* zero, equals the identifier; with divisor 10, values 5, 15, 25 and
\* identifier 1 only the row with 15 is returned.
C4_DividedKeepsTruncatedQuotient ==
    /\ (IsDividedCall /\ call.divisor # 0) =>
          /\ outcome = "ok"
          /\ result = SelectSeq(df, LAMBDA row :
                          TruncatedQuotient(row[call.column_name], call.divisor)
                              = call.batch_identifiers[call.column_name])
    /\ IsDividedCall =>
          SplitOnDividedInteger(<<[num |-> 5], [num |-> 15], [num |-> 25]>>,
                                "num", 10, [num |-> 1]).result = <<[num |-> 15]>>

\* C4 witness: a split with a non-zero divisor kept a negative value that
\* the divisor does not divide, and left another row out.
C4_Witness ==
    /\ IsDividedCall /\ call.divisor # 0 /\ outcome = "ok"
    /\ \E i \in DOMAIN result :
          result[i].num < 0 /\ (-result[i].num) % Abs(call.divisor) # 0
    /\ Len(result) < Len(df)

\* C4 (as claimed): for a non-zero divisor, split_on_divided_integer keeps a
\* row exactly when the integer division (x // divisor, rounding towards
\* minus infinity) of its value by the divisor equals the identifier.
C4_DividedKeepsFloorQuotient ==
    (IsDividedCall /\ call.divisor # 0) =>
        /\ outcome = "ok"
        /\ result = SelectSeq(df, LAMBDA row :
                        FloorQuotient(row[call.column_name], call.divisor)
                            = call.batch_identifiers[call.column_name])

IsMultiCall == call.op = "split_on_multi_column_values"
IsHashedCall == call.op = "split_on_hashed_column"
IsDatePartsCall ==
    call.op \in {"split_on_date_parts", "split_on_year",
                 "split_on_year_and_month", "split_on_year_and_month_and_day"}

\* The named columns that have no truthy value in the call's batch identifiers.
MissingColumns ==
    {c \in Range(call.column_names) :
        c \notin DOMAIN call.batch_identifiers \/ call.batch_identifiers[c] = 0}

\* C5 (as claimed): when a named column, at any place of column_names, has no
\* truthy value in batch_identifiers, split_on_multi_column_values raises an
\* error naming such a column, and no row filter was applied for any column
\* before it.
C5_MultiColumnChecksBeforeFiltering ==
    (IsMultiCall /\ MissingColumns # {}) =>
        /\ outcome = "ValueError"
        /\ offender \in MissingColumns
        /\ filters_applied = 0

C7_UnknownHashNameRaisesEngineError ==
    (IsHashedCall /\ call.hash_function_name \notin HashAlgorithms) =>
        /\ outcome = "ExecutionEngineError"
        /\ offender = call.hash_function_name
        /\ rows_evaluated = 0

\* C8 (as claimed): with a valid hash algorithm, split_on_hashed_column keeps
\* a row exactly when the last hash_digits hex characters of the digest of
\* the stringified value equal hash_value, for every hash_digits from 0 to
\* beyond the digest's length.
C8_HashedKeepsSuffixMatches ==
    (IsHashedCall /\ call.hash_function_name \in HashAlgorithms) =>
        /\ outcome = "ok"
        /\ result = SelectSeq(df, LAMBDA row :
                        LastChars(Hexdigest(call.hash_function_name,
                                            PyStr(row[call.column_name])),
                                  call.hash_digits)
                            = call.batch_identifiers["hash_value"])

\* The target of the call's batch identifier for date part p.
TargetPart(p) == call.batch_identifiers[call.column_name].value[p]

\* C9: the order of date_parts does not matter: every rearrangement of a
\* valid date_parts list returns the same rows in the same order.
C9_DatePartsOrderIrrelevant ==
    (call.op = "split_on_date_parts" /\ ValidDateParts(call.date_parts)
        /\ call.column_name \in DOMAIN call.batch_identifiers) =>
        /\ outcome = "ok"
        /\ \A q \in Rearrangements(call.date_parts) :
              LET other == SplitOnDateParts(df, call.column_name,
                                            call.batch_identifiers, q)
              IN  other.outcome = "ok" /\ other.result = result

\* C9 witness: a split on MONTH then YEAR kept a row and dropped a row that
\* matches the target on one of the two parts only.
C9_Witness ==
    /\ call.op = "split_on_date_parts" /\ outcome = "ok"
    /\ call.date_parts = <<"month", "year">>
    /\ result # <<>>
    /\ \E i \in DOMAIN df :
          (df[i].date.year = TargetPart("year")) # (df[i].date.month = TargetPart("month"))

\* C10: a date-part split returns exactly the rows whose datetime equals the
\* target on every requested date part, whatever its other parts are; on
\* rows dated 2021-05-01 and 2022-05-01, year+month with {year: 2021,
\* month: 5} returns the 2021 row only.
C10_DatePartsAllRequestedMatch ==
    /\ (IsDatePartsCall /\ ValidDateParts(call.date_parts)
            /\ call.column_name \in DOMAIN call.batch_identifiers) =>
          /\ outcome = "ok"
          /\ result = SelectSeq(df, LAMBDA row :
                          \A p \in Requested(call.date_parts) :
                              row[call.column_name][p] = TargetPart(p))
    /\ IsDatePartsCall =>
          SplitOnYearAndMonth(
              <<[id |-> 1, date |-> [year |-> 2021, month |-> 5, day |-> 1]],
                [id |-> 2, date |-> [year |-> 2022, month |-> 5, day |-> 1]]>>,
              "date",
              [date |-> [kind |-> "mapping", value |-> [year |-> 2021, month |-> 5]]]).result
          = <<[id |-> 1, date |-> [year |-> 2021, month |-> 5, day |-> 1]]>>

\* C10 witness: a split on MONTH alone returned rows of two different years,
\* on a day other than the target's, and dropped a row of another month.
C10_Witness ==
    /\ call.op = "split_on_date_parts" /\ outcome = "ok"
    /\ call.date_parts = <<"month">>
    /\ \E i, j \in DOMAIN result : result[i].date.year # result[j].date.year
    /\ \E i \in DOMAIN result :
          call.batch_identifiers["date"].kind = "datetime"
          /\ result[i].date.day # call.batch_identifiers["date"].value["day"]

\* The entries of the call's date_parts that are no supported date part.
InvalidDateParts ==
    {call.date_parts[i] : i \in {j \in 1..Len(call.date_parts) :
                                    LowerCase(call.date_parts[j]) \notin DatePartNames}}

\* C11: when an entry of date_parts is no member of the supported
\* enumeration, split_on_date_parts raises a validation error naming such an
\* entry before the batch identifiers are read (a missing identifier is not
\* reported) and before any row is evaluated or filtered.
C11_DatePartsValidatedFirst ==
    (call.op = "split_on_date_parts" /\ InvalidDateParts # {}) =>
        /\ outcome = "ValidationError"
        /\ offender \in InvalidDateParts
        /\ result = <<>>
        /\ rows_evaluated = 0
        /\ filters_applied = 0

\* C11 witness: a call on a non-empty dataset with a supported date part
\* followed by an unsupported one, and no identifier for the column, ended
\* with the validation error.
C11_Witness ==
    /\ call.op = "split_on_date_parts"
    /\ call.date_parts = <<"year", "eon">>
    /\ call.batch_identifiers = <<>>
    /\ df # <<>>
    /\ outcome = "ValidationError"

\* C12: split_on_whole_table returns the dataset as it is, for every dataset
\* (the empty one included) without looking at a row; it never fails, and
\* applied to its own result it returns the same again.
C12_WholeTableIsIdentity ==
    call.op = "split_on_whole_table" =>
        /\ outcome = "ok"
        /\ result = df
        /\ rows_evaluated = 0
        /\ filters_applied = 0
        /\ SplitOnWholeTable(result).outcome = "ok"
        /\ SplitOnWholeTable(result).result = result

\* C12 witness: the whole-table split of a dataset of two different rows
\* returned both.
C12_Witness ==
    /\ call.op = "split_on_whole_table"
    /\ Len(df) >= 2
    /\ df[1] # df[2]
    /\ result = df

\* C13 (as claimed): split_on_column_value returns exactly the rows whose
\* column value equals the identifier; with an identifier of another type
\* than the column no row is equal, and the call returns the empty dataset
\* without raising.
C13_ColumnValueKeepsEqualRows ==
    (call.op = "split_on_column_value"
        /\ call.column_name \in DOMAIN call.batch_identifiers) =>
        LET other == call.batch_identifiers[call.column_name]
        IN  /\ outcome = "ok"
            /\ result = FilterRows(df,
                   [i \in DOMAIN df |->
                       /\ other.py_type = "int"
                       /\ df[i][call.column_name] = other.value])

\* The part of C13 that the comparison of equal types settles: an identifier
\* of the column's type returns exactly the equal rows, none when no row is
\* equal.
ColumnValueSameTypeKeepsEqualRows ==
    (call.op = "split_on_column_value"
        /\ call.column_name \in DOMAIN call.batch_identifiers
        /\ call.batch_identifiers[call.column_name].py_type = "int") =>
        /\ outcome = "ok"
        /\ result = SelectSeq(df, LAMBDA row :
               row[call.column_name] = call.batch_identifiers[call.column_name].value)

\* sub is seq with some entries left out: the entries of sub are entries of
\* seq, in the order they have in seq.
RECURSIVE IsSubseq(_, _)
IsSubseq(sub, seq) ==
    IF sub = <<>> THEN TRUE
    ELSE IF seq = <<>> THEN FALSE
    ELSE IF Head(sub) = Head(seq) THEN IsSubseq(Tail(sub), Tail(seq))
    ELSE IsSubseq(sub, Tail(seq))

\* A step in which a strategy is called and ends.
IsCallStep == outcome = "none" /\ outcome' # "none"

\* C14: whatever the strategy and its input, a returned dataset is a
\* sub-sequence of the dataset passed in: its rows have the dataset's columns,
\* each is an unchanged row of the dataset, and they stand in the dataset's
\* order; and the call leaves the dataset passed in as it was.
C14_ResultIsSubsequence ==
    /\ [](outcome = "ok" =>
            /\ IsSubseq(result, df)
            /\ \A i \in DOMAIN result : DOMAIN result[i] = columns)
    /\ [][IsCallStep => (df' = df /\ columns' = columns)]_vars

\* C14 witness: a call on a dataset of two different rows returned the
\* second row alone.
C14_Witness ==
    /\ outcome = "ok"
    /\ Len(df) = 2
    /\ df[1] # df[2]
    /\ result = <<df[2]>>

\* The call carries a malformed strategy parameter: an unknown date part, a
\* name that is no hash algorithm, a zero divisor or modulus, a named column
\* without a (truthy) identifier.
MalformedParameter ==
    \/ IsModCall /\ call.mod = 0
    \/ IsDividedCall /\ call.divisor = 0
    \/ IsMultiCall /\ MissingColumns # {}
    \/ IsHashedCall /\ call.hash_function_name \notin HashAlgorithms
    \/ call.op = "split_on_date_parts" /\ InvalidDateParts # {}

\* C15 (as claimed): when a call with a malformed strategy parameter raises,
\* no filter was executed before the error and no rows are returned.
C15_MalformedParameterNeverPartlyApplied ==
    (MalformedParameter /\ outcome \notin {"none", "ok"}) =>
        /\ filters_applied = 0
        /\ result = <<>>

\* The slice split_on_column_value returns for the integer value v.
ColumnValueSlice(v) ==
    LET batch_identifiers ==
            [c \in {call.column_name} |-> [py_type |-> "int", value |-> v]]
    IN  CHOOSE r \in SplitOnColumnValue(df, call.column_name, batch_identifiers) : TRUE

\* The slice split_on_hashed_column returns for the suffix hash_value.
HashedSlice(hash_value) ==
    SplitOnHashedColumn(df, call.column_name, call.hash_digits,
                        [hash_value |-> hash_value], call.hash_function_name)

\* Every string of n hex characters.
HexStrings(n) == [1..n -> Range(HexChars)]

\* The slices of split_on_column_value for the distinct values of the column
\* partition the dataset: every row is in exactly one slice, which holds it
\* as often as the dataset does.
ColumnValuePartition ==
    call.op = "split_on_column_value" =>
        LET values == {df[i][call.column_name] : i \in DOMAIN df}
        IN  /\ \A v \in values : ColumnValueSlice(v).outcome = "ok"
            /\ \A r \in Range(df) :
                  \E v \in values :
                     /\ CountIn(ColumnValueSlice(v).result, r) = CountIn(df, r)
                     /\ \A w \in values \ {v} :
                           r \notin Range(ColumnValueSlice(w).result)

\* The slices of split_on_hashed_column for the hex strings of length
\* hash_digits (0 up to the digest's length) partition the dataset.
HashedPartition ==
    (IsHashedCall /\ call.hash_function_name \in HashAlgorithms
        /\ call.hash_digits <= DigestLen) =>
        LET suffixes == HexStrings(call.hash_digits)
        IN  /\ \A s \in suffixes : HashedSlice(s).outcome = "ok"
            /\ \A r \in Range(df) :
                  \E s \in suffixes :
                     /\ CountIn(HashedSlice(s).result, r) = CountIn(df, r)
                     /\ \A t \in suffixes \ {s} :
                           r \notin Range(HashedSlice(t).result)

\* C16 (as claimed): split_on_column_value over the distinct values of the
\* column, and split_on_hashed_column over every hash suffix of length
\* hash_digits, partition the dataset: every row belongs to exactly one slice.
C16_ValueKeyedPartition == ColumnValuePartition /\ HashedPartition

\* The rows of df whose column value, formatted with the call's
\* date_format_string, is the call's identifier string.
FormattedMatches ==
    SelectSeq(df, LAMBDA row :
        Strftime(row[call.column_name], call.date_format_string)
            = call.batch_identifiers[call.column_name])

\* C17: split_on_converted_datetime returns exactly the rows whose column
\* value formatted with date_format_string is the identifier string, in their
\* order; when no formatted value is the identifier string it returns the
\* empty dataset and does not raise.
C17_ConvertedDatetimeKeepsFormattedMatches ==
    (call.op = "split_on_converted_datetime"
        /\ call.column_name \in DOMAIN call.batch_identifiers) =>
        /\ outcome = "ok"
        /\ result = FormattedMatches
        /\ (\A i \in DOMAIN df :
               Strftime(df[i][call.column_name], call.date_format_string)
                   # call.batch_identifiers[call.column_name]) => result = <<>>

\* C17 witness: with the default format and the identifier "2021-05-01" the
\* split of a dataset holding 1 May 2021 and another day returned the first
\* alone.
C17_Witness ==
    /\ call.op = "split_on_converted_datetime"
    /\ call.date_format_string = DefaultDateFormatString
    /\ call.batch_identifiers
         = [date |-> <<"2", "0", "2", "1", "-", "0", "5", "-", "0", "1">>]
    /\ Len(df) = 2
    /\ df[1].date = [year |-> 2021, month |-> 5, day |-> 1]
    /\ df[2].date # df[1].date
    /\ result = <<df[1]>>

\* A second case of C17: a format other than the default, whose string for
\* the row is not the default format's, and an identifier no row formats to.
C17_OtherFormatReached ==
    /\ call.op = "split_on_converted_datetime"
    /\ call.date_format_string = <<"%", "d", "/", "%", "m">>
    /\ call.batch_identifiers = [date |-> <<"0", "1", "/", "0", "6">>]
    /\ df # <<>>
    /\ result = df

\* C18: submit does not let a failure reach its caller: whichever step of
\* building the groups, computing the properties or sending raises, and
\* whichever exception derived from Exception it raises, submit returns
\* normally; so it does when nothing fails.  (An interrupt, which derives
\* from BaseException alone, is no failure of the submission and passes.)
C18_SubmitNeverPropagates ==
    (call.op = "submit" /\ call.fault.exc \in ExceptionClasses \cup {""}) =>
        outcome = "returned"

\* C18 witness: event.properties() raised TypeError for an event with an
\* organization, on an enabled client, and submit returned.
C18_Witness ==
    /\ call.op = "submit"
    /\ call.fault = [at |-> "properties", exc |-> "TypeError"]
    /\ Truthy(call.event.organization_id)
    /\ ~posthog.disabled
    /\ outcome = "returned"

IsDatasourceCall == call.op = "SnowflakeDatasource"

\* The pre root validator of the construction let the values pass.
PreValidatorPassed == validation.errors # <<ValueErrorOf("both")>>

\* connection_string as the field validation received it.
Received == DictGet(validation.converted, "connection_string")

\* The construction validated a URL-form connection_string.
UrlFormValidated ==
    /\ IsDatasourceCall
    /\ PreValidatorPassed
    /\ Received.type = "str"
    /\ Received.form \in {"snowflake", "template"}

\* The missing-query errors of the construction.
MissingQueryErrors ==
    SelectSeq(validation.errors, LAMBDA e : e.type = "_UrlMissingQueryError")

\* The query gives parameter k a value that is not blank.
HasValue(query, k) == \E i \in DOMAIN query : query[i].key = k /\ query[i].value # ""

\* The message keys for a set of missing required parameters, sorted.
SortedMissing(missing) ==
    IF missing = {"warehouse", "role"} THEN <<"role", "warehouse">>
    ELSE IF missing = {"role"} THEN <<"role">>
    ELSE IF missing = {"warehouse"} THEN <<"warehouse">>
    ELSE <<>>

\* A ConnectionDetails connection_string passes the query check: it raises
\* no missing-query error and, when the construction succeeds, the details
\* are those received.
ConnectionDetailsPassThrough ==
    (IsDatasourceCall /\ PreValidatorPassed /\ Received.type = "dict"
        /\ RequiredDetailFields \subseteq DOMAIN Received.details) =>
        /\ MissingQueryErrors = <<>>
        /\ outcome = "ok" =>
              /\ validation.values["connection_string"].type = "ConnectionDetails"
              /\ validation.values["connection_string"].details = Received.details

\* C19: the validation of a URL-form connection_string (SnowflakeDsn or
\* ConfigUri) succeeds exactly when its query holds both warehouse and role
\* (a parameter counts as held when the query gives it a value that is not
\* blank: parse_qs drops blank ones); else it raises the missing-query error
\* listing exactly the required parameters not held, sorted;
\* ConnectionDetails pass unchanged.
C19_RequiredQueryParamsHaveValues ==
    /\ UrlFormValidated =>
          LET missing == {k \in RequiredQueryParams : ~HasValue(Received.query, k)}
          IN  /\ outcome = "ok" <=> missing = {}
              /\ missing = {} => MissingQueryErrors = <<>>
              /\ missing # {} =>
                    MissingQueryErrors = <<UrlMissingQueryError(SortedMissing(missing))>>
    /\ ConnectionDetailsPassThrough

\* C19 witness: a snowflake URL whose query has a blank role and a warehouse
\* was refused with "missing role".
C19_Witness ==
    /\ UrlFormValidated
    /\ Received.form = "snowflake"
    /\ Received.query = <<[key |-> "role", value |-> ""],
                          [key |-> "warehouse", value |-> "v"]>>
    /\ outcome = "ValidationError"
    /\ MissingQueryErrors = <<UrlMissingQueryError(<<"role">>)>>

\* The connection detail keywords among the keyword arguments of the call.
RootDetailKeys == DOMAIN call.values \cap DetailKeywords

\* C20: a truthy connection_string together with any connection detail
\* keyword ends the construction with the ValueError of the pre root
\* validator, nothing moved; without a (truthy) connection_string the detail
\* keywords are all moved, unchanged, into connection_string and are no root
\* values any more, the other root values stay; and the complete details
\* alone are accepted.
C20_ConnectionStringXorDetails ==
    IsDatasourceCall =>
        LET given == DictGet(call.values, "connection_string")
        IN  /\ (PyBool(given) /\ RootDetailKeys # {}) =>
                  /\ outcome = "ValidationError"
                  /\ validation.errors = <<ValueErrorOf("both")>>
                  /\ validation.converted = call.values
            /\ (~PyBool(given) /\ RootDetailKeys # {}) =>
                  /\ PreValidatorPassed
                  /\ DOMAIN validation.converted \cap DetailKeywords = {}
                  /\ Received.type = "dict"
                  /\ Received.details = [k \in RootDetailKeys |-> call.values[k]]
                  /\ validation.converted["name"] = call.values["name"]
            /\ ("connection_string" \notin DOMAIN call.values
                   /\ \A k \in RequiredDetailFields :
                         k \in DOMAIN call.values /\ call.values[k] # "") =>
                  outcome = "ok"

\* C20 witness: a snowflake URL with warehouse and role given together with
\* the keyword role was refused.
C20_Witness ==
    /\ IsDatasourceCall
    /\ RootDetailKeys = {"role"}
    /\ "connection_string" \in DOMAIN call.values
    /\ call.values["connection_string"].form = "snowflake"
    /\ \A k \in RequiredQueryParams : HasValue(call.values["connection_string"].query, k)
    /\ outcome = "ValidationError"
    /\ validation.errors = <<ValueErrorOf("both")>>

\* A second case of C20: all eight detail keywords alone were moved into
\* connection_string and accepted.
C20_DetailsMovedReached ==
    /\ IsDatasourceCall
    /\ RootDetailKeys = DetailKeywords
    /\ "connection_string" \notin DOMAIN call.values
    /\ outcome = "ok"
    /\ DOMAIN validation.values = {"name", "connection_string"}
    /\ validation.values["connection_string"].details = DetailValues


\* A step in which get_engine is called (by itself or by
\* get_execution_engine) and ends.
IsGetEngineStep ==
    /\ outcome = "none"
    /\ outcome' # "none"
    /\ call'.op \in {"get_engine", "get_execution_engine"}

\* The datasource has an engine and its connection_string is the one of the
\* last get_engine call that returned.
EngineUpToDate ==
    /\ datasource.engine # 0
    /\ datasource.connection_string = datasource.last_connection_string

\* C21 (as claimed): once get_engine has returned, a later get_engine call
\* with the connection_string unchanged returns the same engine and creates
\* none, be connection_string a URL string or ConnectionDetails; an engine
\* is created only when connection_string has changed or no engine exists.
C21_EngineReusedWhileUnchanged ==
    [][IsGetEngineStep =>
          /\ EngineUpToDate =>
                /\ outcome' = "ok"
                /\ call'.returned = datasource.engine
                /\ datasource'.created = datasource.created
          /\ datasource'.created # datasource.created => ~EngineUpToDate]_vars

\* The part of C21 that holds: with a URL-string connection_string the
\* engine is reused while the string is unchanged, and created only when
\* the string has changed or no engine exists.
UrlEngineReusedWhileUnchanged ==
    [][(IsGetEngineStep /\ IsStr(datasource.connection_string)) =>
          /\ EngineUpToDate =>
                /\ outcome' = "ok"
                /\ call'.returned = datasource.engine
                /\ datasource'.created = datasource.created
          /\ datasource'.created # datasource.created => ~EngineUpToDate]_vars

\* With ConnectionDetails every get_engine call that returns has created a
\* new engine.
DetailsEngineNeverReused ==
    [][(IsGetEngineStep /\ ~IsStr(datasource.connection_string)
            /\ outcome' = "ok") =>
          /\ datasource'.created = datasource.created + 1
          /\ call'.returned # datasource.engine]_vars

\* get_engine has returned, for a connection_string, an engine created from
\* another one.
StaleEngineReturned ==
    /\ call.op = "get_engine"
    /\ outcome = "ok"
    /\ call.returned = datasource.engine
    /\ datasource.engine_connection_string # datasource.connection_string


\* The settings of the client that init writes.
PosthogSettings == <<posthog.debug, posthog.project_api_key, posthog.host>>

\* A step in which init is called and returns.
IsInitStep == outcome = "none" /\ outcome' # "none" /\ call'.op = "init"

\* The environment of the call is one of the GX CI or a pytest run: the
\* repository of GitHub Actions is great-expectations/great_expectations,
\* the project of Azure Pipelines is great_expectations, or
\* PYTEST_CURRENT_TEST is set to a test.
CallRunsInGxCi ==
    \E n \in DOMAIN call.environ :
        \/ n = "GITHUB_REPOSITORY"
              /\ call.environ[n] = "great-expectations/great_expectations"
        \/ n = "System.TeamProject" /\ call.environ[n] = "great_expectations"
        \/ n = "PYTEST_CURRENT_TEST" /\ call.environ[n] # ""

\* C22: after every init call the client is disabled exactly when the call
\* had enable = False or ran in the GX CI or under pytest; between init
\* calls nothing changes that; and the API key, the host and the debug
\* setting of the client change in no step but an init call that leaves the
\* client enabled.
C22_DisabledByLastInit ==
    /\ [](call.op = "init" =>
             (posthog.disabled <=> (~call.enable \/ CallRunsInGxCi)))
    /\ [][posthog'.disabled # posthog.disabled => IsInitStep]_vars
    /\ [][PosthogSettings' # PosthogSettings =>
             (IsInitStep /\ ~posthog'.disabled)]_vars
    /\ [][(IsInitStep /\ ~posthog'.disabled) =>
             PosthogSettings' = <<EnvConfig.posthog_debug,
                                  EnvConfig.posthog_project_api_key,
                                  EnvConfig.posthog_host>>]_vars

\* C22 witness: init with enable = True under a running pytest, on the
\* module as imported, left the client disabled and its settings unwritten.
C22_Witness ==
    /\ call.op = "init"
    /\ call.enable
    /\ DOMAIN call.environ = {"PYTEST_CURRENT_TEST"}
    /\ call.environ["PYTEST_CURRENT_TEST"] # ""
    /\ posthog.disabled
    /\ posthog.project_api_key = None

\* A second case of C22: init with enable = True in a fork's GitHub Actions
\* and an empty PYTEST_CURRENT_TEST left the client enabled, its settings
\* written.
C22_EnabledOutsideCiReached ==
    /\ call.op = "init"
    /\ call.enable
    /\ DOMAIN call.environ = {"GITHUB_REPOSITORY", "PYTEST_CURRENT_TEST"}
    /\ call.environ["GITHUB_REPOSITORY"] = "someone/fork"
    /\ call.environ["PYTEST_CURRENT_TEST"] = ""
    /\ ~posthog.disabled
    /\ posthog.project_api_key = EnvConfig.posthog_project_api_key
    /\ config.user_id = call.args.user_id

====
